---- MODULE Spec2Model ----
(***************************************************************************)
(* Command dispatch of the music player daemon (src/src/command.c): the    *)
(* command registry, the permission and argument-count validation, the     *)
(* dispatcher (processCommandInternal), the ACK formatter and the          *)
(* command-list executor (processListOfCommands).                          *)
(*                                                                         *)
(* The daemon serves its clients from one thread: a top-level command or a *)
(* whole command list of one client runs to completion before the next     *)
(* one starts.  A command list is modelled one entry per step, so that the *)
(* states between two entries are visible.                                 *)
(***************************************************************************)
EXTENDS Integers, Sequences, FiniteSets, TLC

(***************************************************************************)
(* Bounds of the model.                                                    *)
(***************************************************************************)
\* longest command list that is run
MaxList == 3
\* longest argument vector (command name included) given to the validation
MaxArgc == 4
\* largest min and max of the descriptors given to the validation
MaxArgs == 2

(***************************************************************************)
(* Program constants.  permission.h and command.h are not among the        *)
(* sources; the permission bits are distinct single bits and the two       *)
(* sentinels are distinct non-zero values that no handler returns          *)
(* otherwise.                                                              *)
(***************************************************************************)
PERMISSION_NONE == 0
PERMISSION_READ == 1
PERMISSION_ADD == 2
PERMISSION_CONTROL == 4
PERMISSION_ADMIN == 8

COMMAND_RETURN_KILL == 10
COMMAND_RETURN_CLOSE == 20

\* the NULL pointer (no command is called like this)
NULL == "NULL"

\* every permission mask over the four permission bits
Masks == 0 .. (PERMISSION_READ + PERMISSION_ADD + PERMISSION_CONTROL + PERMISSION_ADMIN)

\* the element of a one-element set: The({e(x) : x \in {v}}) is e(v), with
\* v computed once
The(S) == CHOOSE x \in S : TRUE

(***************************************************************************)
(* The C operator & on non-negative integers.                              *)
(***************************************************************************)
RECURSIVE BitAnd(_, _)
BitAnd(a, b) ==
    IF a = 0 \/ b = 0 THEN 0
    ELSE (IF a % 2 = 1 /\ b % 2 = 1 THEN 1 ELSE 0) + 2 * BitAnd(a \div 2, b \div 2)

(***************************************************************************)
(* The registry.  struct _CommandEntry and addCommand: one entry per       *)
(* addCommand call of initCommands, in the order of the calls.  A handler  *)
(* is named by its C function; listHandler is NULL for every command but   *)
(* update.                                                                 *)
(***************************************************************************)
Entry(name, reqPermission, minargs, maxargs, handler_func, listHandler_func) ==
    [cmd |-> name, min |-> minargs, max |-> maxargs,
     reqPermission |-> reqPermission,
     handler |-> handler_func, listHandler |-> listHandler_func]

initCommands == <<
    Entry("play", PERMISSION_CONTROL, 0, 1, "handlePlay", "NULL"),
    Entry("playid", PERMISSION_CONTROL, 0, 1, "handlePlayId", "NULL"),
    Entry("stop", PERMISSION_CONTROL, 0, 0, "handleStop", "NULL"),
    Entry("currentsong", PERMISSION_READ, 0, 0, "handleCurrentSong", "NULL"),
    Entry("pause", PERMISSION_CONTROL, 0, 1, "handlePause", "NULL"),
    Entry("status", PERMISSION_READ, 0, 0, "commandStatus", "NULL"),
    Entry("kill", PERMISSION_ADMIN, -1, -1, "handleKill", "NULL"),
    Entry("close", PERMISSION_NONE, -1, -1, "handleClose", "NULL"),
    Entry("add", PERMISSION_ADD, 1, 1, "handleAdd", "NULL"),
    Entry("addid", PERMISSION_ADD, 1, 2, "handleAddId", "NULL"),
    Entry("delete", PERMISSION_CONTROL, 1, 1, "handleDelete", "NULL"),
    Entry("deleteid", PERMISSION_CONTROL, 1, 1, "handleDeleteId", "NULL"),
    Entry("playlist", PERMISSION_READ, 0, 0, "handlePlaylist", "NULL"),
    Entry("playlistid", PERMISSION_READ, 0, 1, "handlePlaylistId", "NULL"),
    Entry("shuffle", PERMISSION_CONTROL, 0, 0, "handleShuffle", "NULL"),
    Entry("clear", PERMISSION_CONTROL, 0, 0, "handleClear", "NULL"),
    Entry("save", PERMISSION_CONTROL, 1, 1, "handleSave", "NULL"),
    Entry("load", PERMISSION_ADD, 1, 1, "handleLoad", "NULL"),
    Entry("listplaylist", PERMISSION_READ, 1, 1, "handleListPlaylist", "NULL"),
    Entry("listplaylistinfo", PERMISSION_READ, 1, 1, "handleListPlaylistInfo", "NULL"),
    Entry("lsinfo", PERMISSION_READ, 0, 1, "handleLsInfo", "NULL"),
    Entry("rm", PERMISSION_CONTROL, 1, 1, "handleRm", "NULL"),
    Entry("playlistinfo", PERMISSION_READ, 0, 1, "handlePlaylistInfo", "NULL"),
    Entry("find", PERMISSION_READ, 2, -1, "handleFind", "NULL"),
    Entry("search", PERMISSION_READ, 2, -1, "handleSearch", "NULL"),
    Entry("update", PERMISSION_ADMIN, 0, 1, "handleUpdate", "listHandleUpdate"),
    Entry("next", PERMISSION_CONTROL, 0, 0, "handleNext", "NULL"),
    Entry("previous", PERMISSION_CONTROL, 0, 0, "handlePrevious", "NULL"),
    Entry("listall", PERMISSION_READ, 0, 1, "handleListAll", "NULL"),
    Entry("volume", PERMISSION_CONTROL, 1, 1, "handleVolume", "NULL"),
    Entry("repeat", PERMISSION_CONTROL, 1, 1, "handleRepeat", "NULL"),
    Entry("random", PERMISSION_CONTROL, 1, 1, "handleRandom", "NULL"),
    Entry("stats", PERMISSION_READ, 0, 0, "handleStats", "NULL"),
    Entry("clearerror", PERMISSION_CONTROL, 0, 0, "handleClearError", "NULL"),
    Entry("list", PERMISSION_READ, 1, -1, "handleList", "NULL"),
    Entry("move", PERMISSION_CONTROL, 2, 2, "handleMove", "NULL"),
    Entry("moveid", PERMISSION_CONTROL, 2, 2, "handleMoveId", "NULL"),
    Entry("swap", PERMISSION_CONTROL, 2, 2, "handleSwap", "NULL"),
    Entry("swapid", PERMISSION_CONTROL, 2, 2, "handleSwapId", "NULL"),
    Entry("seek", PERMISSION_CONTROL, 2, 2, "handleSeek", "NULL"),
    Entry("seekid", PERMISSION_CONTROL, 2, 2, "handleSeekId", "NULL"),
    Entry("listallinfo", PERMISSION_READ, 0, 1, "handleListAllInfo", "NULL"),
    Entry("ping", PERMISSION_NONE, 0, 0, "handlePing", "NULL"),
    Entry("setvol", PERMISSION_CONTROL, 1, 1, "handleSetVol", "NULL"),
    Entry("password", PERMISSION_NONE, 1, 1, "handlePassword", "NULL"),
    Entry("crossfade", PERMISSION_CONTROL, 1, 1, "handleCrossfade", "NULL"),
    Entry("urlhandlers", PERMISSION_READ, 0, 0, "handleUrlHandlers", "NULL"),
    Entry("plchanges", PERMISSION_READ, 1, 1, "handlePlaylistChanges", "NULL"),
    Entry("plchangesposid", PERMISSION_READ, 1, 1, "handlePlaylistChangesPosId", "NULL"),
    Entry("enableoutput", PERMISSION_ADMIN, 1, 1, "handleEnableDevice", "NULL"),
    Entry("disableoutput", PERMISSION_ADMIN, 1, 1, "handleDisableDevice", "NULL"),
    Entry("outputs", PERMISSION_READ, 0, 0, "handleDevices", "NULL"),
    Entry("commands", PERMISSION_NONE, 0, 0, "handleCommands", "NULL"),
    Entry("notcommands", PERMISSION_NONE, 0, 0, "handleNotcommands", "NULL"),
    Entry("playlistclear", PERMISSION_CONTROL, 1, 1, "handlePlaylistClear", "NULL"),
    Entry("playlistadd", PERMISSION_CONTROL, 2, 2, "handlePlaylistAdd", "NULL"),
    Entry("playlistfind", PERMISSION_READ, 2, -1, "handlePlaylistFind", "NULL"),
    Entry("playlistsearch", PERMISSION_READ, 2, -1, "handlePlaylistSearch", "NULL"),
    Entry("playlistmove", PERMISSION_CONTROL, 3, 3, "handlePlaylistMove", "NULL"),
    Entry("playlistdelete", PERMISSION_CONTROL, 2, 2, "handlePlaylistDelete", "NULL"),
    Entry("tagtypes", PERMISSION_READ, 0, 0, "handleTagTypes", "NULL"),
    Entry("count", PERMISSION_READ, 2, -1, "handleCount", "NULL"),
    Entry("rename", PERMISSION_CONTROL, 2, 2, "handleRename", "NULL")
>>

\* the characters of the command names and of the other first tokens used
\* below, as the bytes strcmp compares
NameChars ==
    ("play" :> <<112, 108, 97, 121>>)
    @@ ("playid" :> <<112, 108, 97, 121, 105, 100>>)
    @@ ("stop" :> <<115, 116, 111, 112>>)
    @@ ("currentsong" :> <<99, 117, 114, 114, 101, 110, 116, 115, 111, 110, 103>>)
    @@ ("pause" :> <<112, 97, 117, 115, 101>>)
    @@ ("status" :> <<115, 116, 97, 116, 117, 115>>)
    @@ ("kill" :> <<107, 105, 108, 108>>)
    @@ ("close" :> <<99, 108, 111, 115, 101>>)
    @@ ("add" :> <<97, 100, 100>>)
    @@ ("addid" :> <<97, 100, 100, 105, 100>>)
    @@ ("delete" :> <<100, 101, 108, 101, 116, 101>>)
    @@ ("deleteid" :> <<100, 101, 108, 101, 116, 101, 105, 100>>)
    @@ ("playlist" :> <<112, 108, 97, 121, 108, 105, 115, 116>>)
    @@ ("playlistid" :> <<112, 108, 97, 121, 108, 105, 115, 116, 105, 100>>)
    @@ ("shuffle" :> <<115, 104, 117, 102, 102, 108, 101>>)
    @@ ("clear" :> <<99, 108, 101, 97, 114>>)
    @@ ("save" :> <<115, 97, 118, 101>>)
    @@ ("load" :> <<108, 111, 97, 100>>)
    @@ ("listplaylist" :> <<108, 105, 115, 116, 112, 108, 97, 121, 108, 105, 115, 116>>)
    @@ ("listplaylistinfo" :> <<108, 105, 115, 116, 112, 108, 97, 121, 108, 105, 115, 116, 105, 110, 102, 111>>)
    @@ ("lsinfo" :> <<108, 115, 105, 110, 102, 111>>)
    @@ ("rm" :> <<114, 109>>)
    @@ ("playlistinfo" :> <<112, 108, 97, 121, 108, 105, 115, 116, 105, 110, 102, 111>>)
    @@ ("find" :> <<102, 105, 110, 100>>)
    @@ ("search" :> <<115, 101, 97, 114, 99, 104>>)
    @@ ("update" :> <<117, 112, 100, 97, 116, 101>>)
    @@ ("next" :> <<110, 101, 120, 116>>)
    @@ ("previous" :> <<112, 114, 101, 118, 105, 111, 117, 115>>)
    @@ ("listall" :> <<108, 105, 115, 116, 97, 108, 108>>)
    @@ ("volume" :> <<118, 111, 108, 117, 109, 101>>)
    @@ ("repeat" :> <<114, 101, 112, 101, 97, 116>>)
    @@ ("random" :> <<114, 97, 110, 100, 111, 109>>)
    @@ ("stats" :> <<115, 116, 97, 116, 115>>)
    @@ ("clearerror" :> <<99, 108, 101, 97, 114, 101, 114, 114, 111, 114>>)
    @@ ("list" :> <<108, 105, 115, 116>>)
    @@ ("move" :> <<109, 111, 118, 101>>)
    @@ ("moveid" :> <<109, 111, 118, 101, 105, 100>>)
    @@ ("swap" :> <<115, 119, 97, 112>>)
    @@ ("swapid" :> <<115, 119, 97, 112, 105, 100>>)
    @@ ("seek" :> <<115, 101, 101, 107>>)
    @@ ("seekid" :> <<115, 101, 101, 107, 105, 100>>)
    @@ ("listallinfo" :> <<108, 105, 115, 116, 97, 108, 108, 105, 110, 102, 111>>)
    @@ ("ping" :> <<112, 105, 110, 103>>)
    @@ ("setvol" :> <<115, 101, 116, 118, 111, 108>>)
    @@ ("password" :> <<112, 97, 115, 115, 119, 111, 114, 100>>)
    @@ ("crossfade" :> <<99, 114, 111, 115, 115, 102, 97, 100, 101>>)
    @@ ("urlhandlers" :> <<117, 114, 108, 104, 97, 110, 100, 108, 101, 114, 115>>)
    @@ ("plchanges" :> <<112, 108, 99, 104, 97, 110, 103, 101, 115>>)
    @@ ("plchangesposid" :> <<112, 108, 99, 104, 97, 110, 103, 101, 115, 112, 111, 115, 105, 100>>)
    @@ ("enableoutput" :> <<101, 110, 97, 98, 108, 101, 111, 117, 116, 112, 117, 116>>)
    @@ ("disableoutput" :> <<100, 105, 115, 97, 98, 108, 101, 111, 117, 116, 112, 117, 116>>)
    @@ ("outputs" :> <<111, 117, 116, 112, 117, 116, 115>>)
    @@ ("commands" :> <<99, 111, 109, 109, 97, 110, 100, 115>>)
    @@ ("notcommands" :> <<110, 111, 116, 99, 111, 109, 109, 97, 110, 100, 115>>)
    @@ ("playlistclear" :> <<112, 108, 97, 121, 108, 105, 115, 116, 99, 108, 101, 97, 114>>)
    @@ ("playlistadd" :> <<112, 108, 97, 121, 108, 105, 115, 116, 97, 100, 100>>)
    @@ ("playlistfind" :> <<112, 108, 97, 121, 108, 105, 115, 116, 102, 105, 110, 100>>)
    @@ ("playlistsearch" :> <<112, 108, 97, 121, 108, 105, 115, 116, 115, 101, 97, 114, 99, 104>>)
    @@ ("playlistmove" :> <<112, 108, 97, 121, 108, 105, 115, 116, 109, 111, 118, 101>>)
    @@ ("playlistdelete" :> <<112, 108, 97, 121, 108, 105, 115, 116, 100, 101, 108, 101, 116, 101>>)
    @@ ("tagtypes" :> <<116, 97, 103, 116, 121, 112, 101, 115>>)
    @@ ("count" :> <<99, 111, 117, 110, 116>>)
    @@ ("rename" :> <<114, 101, 110, 97, 109, 101>>)
    @@ ("" :> <<>>)
    @@ ("a" :> <<97>>)
    @@ ("bogus" :> <<98, 111, 103, 117, 115>>)
    @@ ("idle" :> <<105, 100, 108, 101>>)
    @@ ("pla" :> <<112, 108, 97>>)
    @@ ("playy" :> <<112, 108, 97, 121, 121>>)
    @@ ("test" :> <<116, 101, 115, 116>>)
    @@ ("zzz" :> <<122, 122, 122>>)

\* strcmp on two byte sequences: -1, 0 or 1
RECURSIVE CompareChars(_, _)
CompareChars(x, y) ==
    IF x = <<>> /\ y = <<>> THEN 0
    ELSE IF x = <<>> THEN -1
    ELSE IF y = <<>> THEN 1
    ELSE IF Head(x) < Head(y) THEN -1
    ELSE IF Head(x) > Head(y) THEN 1
    ELSE CompareChars(Tail(x), Tail(y))

strcmp(a, b) == CompareChars(NameChars[a], NameChars[b])

\* sortList: the nodes ordered by key (strcmp); the place of a node is the
\* number of nodes that come before it (nodes of equal key keep their order)
sortList(l) ==
    The({ [i \in 1 .. Len(l) |-> l[CHOOSE k \in 1 .. Len(l) : place[k] = i]] :
          place \in {[k \in 1 .. Len(l) |->
                        1 + Cardinality({j \in 1 .. Len(l) :
                              \/ strcmp(l[j].cmd, l[k].cmd) < 0
                              \/ strcmp(l[j].cmd, l[k].cmd) = 0 /\ j < k})]} })

\* initCommands without the call of sortList
commandList_Unsorted == initCommands

\* the registry after initCommands
commandList == sortList(initCommands)

\* the names of the registered commands
CommandNames == {commandList[i].cmd : i \in 1 .. Len(commandList)}

\* findInList(commandList, key, &cmd): a pointer to the entry stored under
\* key, as its position in commandList; 0 (a NULL pointer) when there is none
RECURSIVE findNodeInList(_, _, _)
findNodeInList(key, low, high) ==
    IF low > high
    THEN 0
    ELSE LET cur == (low + high) \div 2
             cmp == strcmp(commandList[cur].cmd, key)
         IN  IF cmp = 0 THEN cur
             ELSE IF cmp > 0 THEN findNodeInList(key, low, cur - 1)
             ELSE findNodeInList(key, cur + 1, high)

\* the list is sorted: the key is searched by bisection
findInList(key) == findNodeInList(key, 1, Len(commandList))

(***************************************************************************)
(* Output lines of a client.  An ACK line is                               *)
(*   ACK [error@listNum] {command} fmt(arg)                                *)
(* and every other line has only its type and text.                        *)
(***************************************************************************)
AckLine(error, listNum, command, fmt, arg) ==
    [type |-> "ACK", error |-> error, listNum |-> listNum,
     command |-> command, fmt |-> fmt, arg |-> arg]

TextLine(type, text) ==
    [type |-> type, error |-> "", listNum |-> 0,
     command |-> "", fmt |-> text, arg |-> ""]

(***************************************************************************)
(* The state a dispatch works on, as one record g:                         *)
(*   current_command, command_listNum   the two file-scope statics         *)
(*   pathList      the static list of listHandleUpdate (<<>> when NULL)    *)
(*   permission    the int that the permission pointer points to           *)
(*   out           the lines written to the client                         *)
(*   updates       the path lists handed to updateInit                     *)
(*   aborted       an assertion has failed                                 *)
(***************************************************************************)

\* command_error -> command_error_v: format one ACK and clear the marker
command_error(g, error, fmt, arg) ==
    IF g.current_command = NULL
    THEN [g EXCEPT !.aborted = TRUE]
    ELSE [g EXCEPT !.out = Append(@, AckLine(error, g.command_listNum,
                                             g.current_command, fmt, arg)),
                   !.current_command = NULL]

\* client_printf / client_puts of a line that is no ACK
client_puts(g, type, text) ==
    [g EXCEPT !.out = Append(@, TextLine(type, text))]

(***************************************************************************)
(* Validation.  cmd is the entry (what the CommandEntry pointer points     *)
(* to), hasClient tells whether client != NULL, argv is the argument       *)
(* vector (argv[1] is the name).  The result is the new state g and the    *)
(* value returned.                                                         *)
(***************************************************************************)

\* hasPermission with the slip of testing for any required bit
hasPermission_AnyBit(permission, reqPermission) ==
    reqPermission = 0 \/ BitAnd(permission, reqPermission) # 0

\* the condition under which the permission check lets a command pass
hasPermission(permission, reqPermission) ==
    reqPermission = BitAnd(permission, reqPermission)

\* checkArgcAndPermission with the argument count checked first
checkArgcAndPermission_ArityFirst(g, cmd, hasClient, permission, argv) ==
    LET argc == Len(argv)
        min == cmd.min + 1
        max == cmd.max + 1
        fail(error, fmt, arg) ==
            [g |-> IF hasClient THEN command_error(g, error, fmt, arg) ELSE g,
             ret |-> -1]
    IN  IF min # 0 /\ min = max /\ max # argc
        THEN fail("ACK_ERROR_ARG", "wrong number of arguments for \"%s\"", argv[1])
        ELSE IF min # 0 /\ argc < min
        THEN fail("ACK_ERROR_ARG", "too few arguments for \"%s\"", argv[1])
        ELSE IF min # 0 /\ argc > max /\ max # 0
        THEN fail("ACK_ERROR_ARG", "too many arguments for \"%s\"", argv[1])
        ELSE IF ~(cmd.reqPermission = BitAnd(permission, cmd.reqPermission))
        THEN fail("ACK_ERROR_PERMISSION", "you don't have permission for \"%s\"", cmd.cmd)
        ELSE [g |-> g, ret |-> 0]

\* checkArgcAndPermission without the test that max is not 0
checkArgcAndPermission_NoMaxTest(g, cmd, hasClient, permission, argv) ==
    LET argc == Len(argv)
        min == cmd.min + 1
        max == cmd.max + 1
        fail(error, fmt, arg) ==
            [g |-> IF hasClient THEN command_error(g, error, fmt, arg) ELSE g,
             ret |-> -1]
    IN  IF ~(cmd.reqPermission = BitAnd(permission, cmd.reqPermission))
        THEN fail("ACK_ERROR_PERMISSION", "you don't have permission for \"%s\"", cmd.cmd)
        ELSE IF min = 0
        THEN [g |-> g, ret |-> 0]
        ELSE IF min = max /\ max # argc
        THEN fail("ACK_ERROR_ARG", "wrong number of arguments for \"%s\"", argv[1])
        ELSE IF argc < min
        THEN fail("ACK_ERROR_ARG", "too few arguments for \"%s\"", argv[1])
        ELSE IF argc > max
        THEN fail("ACK_ERROR_ARG", "too many arguments for \"%s\"", argv[1])
        ELSE [g |-> g, ret |-> 0]

\* checkArgcAndPermission without the return after the permission error
checkArgcAndPermission_NoReturn(g, cmd, hasClient, permission, argv) ==
    LET argc == Len(argv)
        min == cmd.min + 1
        max == cmd.max + 1
        denied == ~(cmd.reqPermission = BitAnd(permission, cmd.reqPermission))
        g1 == IF denied /\ hasClient
              THEN command_error(g, "ACK_ERROR_PERMISSION",
                                 "you don't have permission for \"%s\"", cmd.cmd)
              ELSE g
        fail(error, fmt, arg) ==
            [g |-> IF hasClient THEN command_error(g1, error, fmt, arg) ELSE g1,
             ret |-> -1]
    IN  IF min = 0
        THEN [g |-> g1, ret |-> 0]
        ELSE IF min = max /\ max # argc
        THEN fail("ACK_ERROR_ARG", "wrong number of arguments for \"%s\"", argv[1])
        ELSE IF argc < min
        THEN fail("ACK_ERROR_ARG", "too few arguments for \"%s\"", argv[1])
        ELSE IF argc > max /\ max # 0
        THEN fail("ACK_ERROR_ARG", "too many arguments for \"%s\"", argv[1])
        ELSE [g |-> g1, ret |-> 0]

\* checkArgcAndPermission with the mask taken by pointer and reduced to the
\* required bits by the test
checkArgcAndPermission_MaskAssign(g, cmd, hasClient, permission, argv) ==
    LET argc == Len(argv)
        min == cmd.min + 1
        max == cmd.max + 1
        g1 == [g EXCEPT !.permission = BitAnd(permission, cmd.reqPermission)]
        fail(error, fmt, arg) ==
            [g |-> IF hasClient THEN command_error(g1, error, fmt, arg) ELSE g1,
             ret |-> -1]
    IN  IF ~(cmd.reqPermission = BitAnd(permission, cmd.reqPermission))
        THEN fail("ACK_ERROR_PERMISSION", "you don't have permission for \"%s\"", cmd.cmd)
        ELSE IF min = 0
        THEN [g |-> g1, ret |-> 0]
        ELSE IF min = max /\ max # argc
        THEN fail("ACK_ERROR_ARG", "wrong number of arguments for \"%s\"", argv[1])
        ELSE IF argc < min
        THEN fail("ACK_ERROR_ARG", "too few arguments for \"%s\"", argv[1])
        ELSE IF argc > max /\ max # 0
        THEN fail("ACK_ERROR_ARG", "too many arguments for \"%s\"", argv[1])
        ELSE [g |-> g1, ret |-> 0]

\* checkArgcAndPermission with cmd->min for min in the too-few test
checkArgcAndPermission_RawMin(g, cmd, hasClient, permission, argv) ==
    LET argc == Len(argv)
        min == cmd.min + 1
        max == cmd.max + 1
        fail(error, fmt, arg) ==
            [g |-> IF hasClient THEN command_error(g, error, fmt, arg) ELSE g,
             ret |-> -1]
    IN  IF ~(cmd.reqPermission = BitAnd(permission, cmd.reqPermission))
        THEN fail("ACK_ERROR_PERMISSION", "you don't have permission for \"%s\"", cmd.cmd)
        ELSE IF min = 0
        THEN [g |-> g, ret |-> 0]
        ELSE IF min = max /\ max # argc
        THEN fail("ACK_ERROR_ARG", "wrong number of arguments for \"%s\"", argv[1])
        ELSE IF argc < cmd.min
        THEN fail("ACK_ERROR_ARG", "too few arguments for \"%s\"", argv[1])
        ELSE IF argc > max /\ max # 0
        THEN fail("ACK_ERROR_ARG", "too many arguments for \"%s\"", argv[1])
        ELSE [g |-> g, ret |-> 0]

\* checkArgcAndPermission without the return at min == 0
checkArgcAndPermission_NoSkip(g, cmd, hasClient, permission, argv) ==
    LET argc == Len(argv)
        min == cmd.min + 1
        max == cmd.max + 1
        fail(error, fmt, arg) ==
            [g |-> IF hasClient THEN command_error(g, error, fmt, arg) ELSE g,
             ret |-> -1]
    IN  IF ~(cmd.reqPermission = BitAnd(permission, cmd.reqPermission))
        THEN fail("ACK_ERROR_PERMISSION", "you don't have permission for \"%s\"", cmd.cmd)
        ELSE IF min = max /\ max # argc
        THEN fail("ACK_ERROR_ARG", "wrong number of arguments for \"%s\"", argv[1])
        ELSE IF argc < min
        THEN fail("ACK_ERROR_ARG", "too few arguments for \"%s\"", argv[1])
        ELSE IF argc > max /\ max # 0
        THEN fail("ACK_ERROR_ARG", "too many arguments for \"%s\"", argv[1])
        ELSE [g |-> g, ret |-> 0]

checkArgcAndPermission(g, cmd, hasClient, permission, argv) ==
    LET argc == Len(argv)
        min == cmd.min + 1
        max == cmd.max + 1
        fail(error, fmt, arg) ==
            [g |-> IF hasClient THEN command_error(g, error, fmt, arg) ELSE g,
             ret |-> -1]
    IN  IF ~hasPermission(permission, cmd.reqPermission)
        THEN fail("ACK_ERROR_PERMISSION", "you don't have permission for \"%s\"", cmd.cmd)
        ELSE IF min = 0
        THEN [g |-> g, ret |-> 0]
        ELSE IF min = max /\ max # argc
        THEN fail("ACK_ERROR_ARG", "wrong number of arguments for \"%s\"", argv[1])
        ELSE IF argc < min
        THEN fail("ACK_ERROR_ARG", "too few arguments for \"%s\"", argv[1])
        ELSE IF argc > max /\ max # 0
        THEN fail("ACK_ERROR_ARG", "too many arguments for \"%s\"", argv[1])
        ELSE [g |-> g, ret |-> 0]

\* getCommandEntryAndCheckArgcAndPermission with current_command set to
\* argv[0] before the lookup
getCommandEntryAndCheckArgcAndPermission_NameFirst(g, hasClient, argv) ==
    IF Len(argv) = 0
    THEN [g |-> [g EXCEPT !.current_command = ""], cmd |-> 0]
    ELSE The({
        IF cmd = 0
        THEN [g |-> IF hasClient
                    THEN command_error(g1, "ACK_ERROR_UNKNOWN",
                                       "unknown command \"%s\"", argv[1])
                    ELSE g1,
              cmd |-> 0]
        ELSE The({
            IF chk.ret < 0
            THEN [g |-> chk.g, cmd |-> 0]
            ELSE [g |-> chk.g, cmd |-> cmd] :
            chk \in {checkArgcAndPermission(g1, commandList[cmd], hasClient,
                                            g.permission, argv)} }) :
        g1 \in {[g EXCEPT !.current_command = argv[1]]},
        cmd \in {findInList(argv[1])} })

\* getCommandEntryAndCheckArgcAndPermission without current_command = unknown
getCommandEntryAndCheckArgcAndPermission_NoUnknown(g, hasClient, argv) ==
    IF Len(argv) = 0
    THEN [g |-> g, cmd |-> 0]
    ELSE The({
        IF cmd = 0
        THEN [g |-> IF hasClient
                    THEN command_error(g, "ACK_ERROR_UNKNOWN",
                                       "unknown command \"%s\"", argv[1])
                    ELSE g,
              cmd |-> 0]
        ELSE The({
            IF chk.ret < 0
            THEN [g |-> chk.g, cmd |-> 0]
            ELSE [g |-> chk.g, cmd |-> cmd] :
            chk \in {checkArgcAndPermission(
                        [g EXCEPT !.current_command = commandList[cmd].cmd],
                        commandList[cmd], hasClient, g.permission, argv)} }) :
        cmd \in {findInList(argv[1])} })

\* the result is the state and the entry found (0 for NULL)
getCommandEntryAndCheckArgcAndPermission(g, hasClient, argv) ==
    IF Len(argv) = 0
    THEN [g |-> [g EXCEPT !.current_command = ""], cmd |-> 0]
    ELSE The({
        IF cmd = 0
        THEN [g |-> IF hasClient
                    THEN command_error(g1, "ACK_ERROR_UNKNOWN",
                                       "unknown command \"%s\"", argv[1])
                    ELSE g1,
              cmd |-> 0]
        ELSE The({
            IF chk.ret < 0
            THEN [g |-> chk.g, cmd |-> 0]
            ELSE [g |-> chk.g, cmd |-> cmd] :
            chk \in {checkArgcAndPermission(
                        [g1 EXCEPT !.current_command = commandList[cmd].cmd],
                        commandList[cmd], hasClient, g.permission, argv)} }) :
        g1 \in {[g EXCEPT !.current_command = ""]},
        cmd \in {findInList(argv[1])} })

\* the entry of a raw line, validated without a client (no ACK is written)
getCommandEntryFromString(g, argv) ==
    IF Len(argv) = 0
    THEN [g |-> g, cmd |-> 0]
    ELSE getCommandEntryAndCheckArgcAndPermission(g, FALSE, argv)

(***************************************************************************)
(* Handlers.  ext holds what the collaborators called by a handler return  *)
(* (playlist, database update, password table, integer parsing); each      *)
(* handler reads only the fields of the calls it makes.  A handler gives   *)
(* the new state g and the value it returns.                               *)
(***************************************************************************)

\* enum playlist_result in the order of its values, from 0
playlist_result == <<
    "PLAYLIST_RESULT_SUCCESS", "PLAYLIST_RESULT_ERRNO",
    "PLAYLIST_RESULT_NO_SUCH_SONG", "PLAYLIST_RESULT_NO_SUCH_LIST",
    "PLAYLIST_RESULT_LIST_EXISTS", "PLAYLIST_RESULT_BAD_NAME",
    "PLAYLIST_RESULT_BAD_RANGE", "PLAYLIST_RESULT_NOT_PLAYING",
    "PLAYLIST_RESULT_TOO_LARGE" >>

PlaylistResults == 0 .. (Len(playlist_result) - 1)

\* the value of the enumerator called name
PlaylistResult(name) ==
    (CHOOSE i \in 1 .. Len(playlist_result) : playlist_result[i] = name) - 1

print_playlist_result(g, result) ==
    LET name == playlist_result[result + 1]
        err(error, fmt) == [g |-> command_error(g, error, fmt, ""), ret |-> -1]
    IN  CASE name = "PLAYLIST_RESULT_SUCCESS" -> [g |-> g, ret |-> 0]
          [] name = "PLAYLIST_RESULT_ERRNO" -> err("ACK_ERROR_SYSTEM", "strerror(errno)")
          [] name = "PLAYLIST_RESULT_NO_SUCH_SONG" -> err("ACK_ERROR_NO_EXIST", "No such song")
          [] name = "PLAYLIST_RESULT_NO_SUCH_LIST" -> err("ACK_ERROR_NO_EXIST", "No such playlist")
          [] name = "PLAYLIST_RESULT_LIST_EXISTS" -> err("ACK_ERROR_NO_EXIST", "Playlist already exists")
          [] name = "PLAYLIST_RESULT_BAD_NAME" -> err("ACK_ERROR_ARG", "playlist name is invalid")
          [] name = "PLAYLIST_RESULT_BAD_RANGE" -> err("ACK_ERROR_ARG", "Bad song index")
          [] name = "PLAYLIST_RESULT_NOT_PLAYING" -> err("ACK_ERROR_PLAYER_SYNC", "Not playing")
          [] name = "PLAYLIST_RESULT_TOO_LARGE" -> err("ACK_ERROR_PLAYLIST_MAX", "playlist is at the max size")

\* check_int(client, &dst, s, fmt, ...): ext.parse tells whether s parses
check_int(g, s, fmt, ext) ==
    IF ext.parse
    THEN [g |-> g, ret |-> 0]
    ELSE [g |-> command_error(g, "ACK_ERROR_ARG", fmt, s), ret |-> -1]

handleStop(g, argv, ext) == [g |-> g, ret |-> 0]

handlePing(g, argv, ext) == [g |-> g, ret |-> 0]

handleKill(g, argv, ext) == [g |-> g, ret |-> COMMAND_RETURN_KILL]

handleClose(g, argv, ext) == [g |-> g, ret |-> COMMAND_RETURN_CLOSE]

\* ext.remote: isRemoteUrl(path); ext.result: what addToPlaylist or addAllIn
\* returns (-1 from addAllIn: not found)
handleAdd(g, argv, ext) ==
    IF ext.remote
    THEN [g |-> g, ret |-> ext.result]
    ELSE IF ext.result = -1
    THEN [g |-> command_error(g, "ACK_ERROR_NO_EXIST", "directory or file not found", ""),
          ret |-> -1]
    ELSE print_playlist_result(g, ext.result)

\* ext.result: addToPlaylist; ext.parse: check_int of argv[2];
\* ext.result2: moveSongInPlaylistById
handleAddId(g, argv, ext) ==
    LET result == ext.result
        chk == check_int(g, argv[3], "\"%s\" is not a integer", ext)
        moved == print_playlist_result(g, ext.result2)
        id(gg, r) == [g |-> client_puts(gg, "Id", "Id: added_id"), ret |-> r]
    IN  IF playlist_result[result + 1] = "PLAYLIST_RESULT_SUCCESS"
        THEN [g |-> g, ret |-> result]
        ELSE IF Len(argv) = 3
        THEN IF chk.ret < 0
             THEN [g |-> chk.g, ret |-> -1]
             ELSE IF playlist_result[ext.result2 + 1] # "PLAYLIST_RESULT_SUCCESS"
             THEN moved
             ELSE id(g, ext.result2)
        ELSE id(g, result)

\* ext.result: savePlaylist
handleSave(g, argv, ext) == print_playlist_result(g, ext.result)

\* client_printf(client, "command: %s\n", cmd->cmd)
CommandLine(name) == [TextLine("command", "command: %s") EXCEPT !.arg = name]

\* handleCommands: one line for every entry of commandList, in its order,
\* that the client's mask allows
handleCommands(g, argv, ext) ==
    The({[g |-> [g EXCEPT !.out = @ \o [i \in 1 .. Len(sel) |-> CommandLine(sel[i].cmd)]],
          ret |-> 0] :
         sel \in {SelectSeq(commandList, LAMBDA cmd :
                     cmd.reqPermission = BitAnd(g.permission, cmd.reqPermission))} })

\* handleNotcommands with the test of handleCommands
handleNotcommands_Equal(g, argv, ext) ==
    The({[g |-> [g EXCEPT !.out = @ \o [i \in 1 .. Len(sel) |-> CommandLine(sel[i].cmd)]],
          ret |-> 0] :
         sel \in {SelectSeq(commandList, LAMBDA cmd :
                     cmd.reqPermission = BitAnd(g.permission, cmd.reqPermission))} })

\* handleNotcommands: one line for every entry the client's mask does not
\* allow
handleNotcommands(g, argv, ext) ==
    The({[g |-> [g EXCEPT !.out = @ \o [i \in 1 .. Len(sel) |-> CommandLine(sel[i].cmd)]],
          ret |-> 0] :
         sel \in {SelectSeq(commandList, LAMBDA cmd :
                     cmd.reqPermission # BitAnd(g.permission, cmd.reqPermission))} })

\* ext.pw: the permission getPermissionFromPassword stores, -1 when the
\* password is not known
handlePassword(g, argv, ext) ==
    IF ext.pw < 0
    THEN [g |-> command_error(g, "ACK_ERROR_PASSWORD", "incorrect password", ""),
          ret |-> -1]
    ELSE [g |-> [g EXCEPT !.permission = ext.pw], ret |-> 0]

\* the switch on the value of updateInit that ends both update handlers;
\* already is what ret becomes in case 0
update_result(g, ret, already) ==
    CASE ret = 0 ->
            [g |-> command_error(g, "ACK_ERROR_UPDATE_ALREADY", "already updating", ""),
             ret |-> already]
      [] ret = -1 ->
            [g |-> command_error(g, "ACK_ERROR_SYSTEM", "problems trying to update", ""),
             ret |-> -1]
      [] OTHER ->
            [g |-> client_puts(g, "updating_db", "updating_db: %i"), ret |-> 0]

\* ext.update: what updateInit returns (0 already updating, -1 failure,
\* else the job id)
handleUpdate(g, argv, ext) ==
    The({update_result(g1, ext.update, -1) :
         g1 \in {[g EXCEPT !.updates =
                     Append(@, IF Len(argv) = 2 THEN <<argv[2]>> ELSE <<>>)]} })

\* list is the command list, cmdnode the position of this entry in it and
\* cmd the entry of update
listHandleUpdate(g, argv, list, cmdnode, cmd, ext) ==
    The({
        IF cmd # peek.cmd
        THEN The({update_result(g3, ext.update, 0) :
                  g3 \in {[peek.g EXCEPT !.updates = Append(@, peek.g.pathList),
                                         !.pathList = <<>>]} })
        ELSE [g |-> peek.g, ret |-> 0] :
        peek \in {The({
            IF cmdnode < Len(list)
            THEN getCommandEntryFromString(g1, list[cmdnode + 1])
            ELSE [g |-> g1, cmd |-> 0] :
            g1 \in {[g EXCEPT !.pathList =
                        Append(@, IF Len(argv) = 2 THEN argv[2] ELSE "")]} })} })

\* cmd->handler(client, permission, argc, argv)
CallHandler(handler, g, argv, ext) ==
    CASE handler = "handleStop" -> handleStop(g, argv, ext)
      [] handler = "handlePing" -> handlePing(g, argv, ext)
      [] handler = "handleKill" -> handleKill(g, argv, ext)
      [] handler = "handleClose" -> handleClose(g, argv, ext)
      [] handler = "handleAdd" -> handleAdd(g, argv, ext)
      [] handler = "handleAddId" -> handleAddId(g, argv, ext)
      [] handler = "handleSave" -> handleSave(g, argv, ext)
      [] handler = "handlePassword" -> handlePassword(g, argv, ext)
      [] handler = "handleCommands" -> handleCommands(g, argv, ext)
      [] handler = "handleNotcommands" -> handleNotcommands(g, argv, ext)
      [] handler = "handleUpdate" -> handleUpdate(g, argv, ext)

(***************************************************************************)
(* The dispatcher.  commandString is the tokenized line; cmdnode is the    *)
(* position of the line in list, 0 when the command is no part of a list.  *)
(* The result also names the handler that was called (NULL for none).      *)
(***************************************************************************)
\* processCommandInternal without the return at argc == 0
processCommandInternal_NoEmptyTest(g, commandString, list, cmdnode, ext) ==
    LET argv == commandString
    IN  The({
            IF got.cmd # 0
            THEN LET e == commandList[got.cmd]
                     g1 == got.g
                 IN  IF cmdnode = 0 \/ e.listHandler = NULL
                     THEN The({[g |-> [r.g EXCEPT !.current_command = NULL],
                                ret |-> r.ret, handler |-> e.handler] :
                               r \in {CallHandler(e.handler, g1, argv, ext)} })
                     ELSE The({[g |-> [r.g EXCEPT !.current_command = NULL],
                                ret |-> r.ret, handler |-> e.listHandler] :
                               r \in {listHandleUpdate(g1, argv, list, cmdnode,
                                                       got.cmd, ext)} })
            ELSE [g |-> [got.g EXCEPT !.current_command = NULL], ret |-> -1,
                  handler |-> NULL] :
            got \in {getCommandEntryAndCheckArgcAndPermission(g, TRUE, argv)} })

processCommandInternal(g, commandString, list, cmdnode, ext) ==
    LET argv == commandString
    IN  IF Len(argv) = 0
        THEN [g |-> g, ret |-> 0, handler |-> NULL]
        ELSE The({
            IF got.cmd # 0
            THEN LET e == commandList[got.cmd]
                     g1 == got.g
                 IN  IF cmdnode = 0 \/ e.listHandler = NULL
                     THEN The({[g |-> [r.g EXCEPT !.current_command = NULL],
                                ret |-> r.ret, handler |-> e.handler] :
                               r \in {CallHandler(e.handler, g1, argv, ext)} })
                     ELSE The({[g |-> [r.g EXCEPT !.current_command = NULL],
                                ret |-> r.ret, handler |-> e.listHandler] :
                               r \in {listHandleUpdate(g1, argv, list, cmdnode,
                                                       got.cmd, ext)} })
            ELSE [g |-> [got.g EXCEPT !.current_command = NULL], ret |-> -1,
                  handler |-> NULL] :
            got \in {getCommandEntryAndCheckArgcAndPermission(g, TRUE, argv)} })

(***************************************************************************)
(* The daemon.                                                             *)
(***************************************************************************)
VARIABLES
    permission,       \* the permission mask of each client
    expired,          \* the clients for which client_is_expired holds
    current_command,  \* static const char *current_command
    command_listNum,  \* static int command_listNum
    pathList,         \* static List *pathList of listHandleUpdate
    pc,               \* "idle", "list", "out", "done" or "aborted"
    client,           \* the client whose command or command list runs
    isList,           \* TRUE for processListOfCommands, FALSE for processCommand
    list,             \* the lines of the command list (or the one command)
    listOK,           \* the listOK flag of the command list
    cur,              \* the position of cur in list (Len(list)+1: NULL)
    ret,              \* ret of processListOfCommands / processCommand
    out,              \* the lines written to the client by this call
    updates,          \* the path lists given to updateInit by this call
    log,              \* one record per dispatch of this call
    chk               \* the last validation made on its own

vars == <<permission, expired, current_command, command_listNum, pathList,
          pc, client, isList, list, listOK, cur, ret, out, updates, log, chk>>

Clients == {"c1"}

\* the masks a client starts with (the configured default permission) and
\* the masks the configured passwords grant
AllPermissions ==
    PERMISSION_READ + PERMISSION_ADD + PERMISSION_CONTROL + PERMISSION_ADMIN
InitPermissions == {PERMISSION_READ + PERMISSION_ADD, AllPermissions}
PasswordPermissions == {AllPermissions}

\* the lines clients send, tokenized
Lines == {
    <<>>,
    <<"ping">>,
    <<"stop", "1">>,
    <<"update">>,
    <<"update", "a">>,
    <<"add", "u">>,
    <<"addid", "u">>,
    <<"save", "p">>,
    <<"bogus">>,
    <<"idle">>,
    <<"password", "pw">>,
    <<"kill">>,
    <<"close">> }

Lists == UNION {[1 .. n -> Lines] : n \in 0 .. MaxList}

\* the results the playlist gives when a song is added or moved
AddResults == {
    PlaylistResult("PLAYLIST_RESULT_SUCCESS"),
    PlaylistResult("PLAYLIST_RESULT_NO_SUCH_SONG"),
    PlaylistResult("PLAYLIST_RESULT_TOO_LARGE") }

SaveResults == {
    PlaylistResult("PLAYLIST_RESULT_SUCCESS"),
    PlaylistResult("PLAYLIST_RESULT_LIST_EXISTS") }

MoveResults == {
    PlaylistResult("PLAYLIST_RESULT_SUCCESS"),
    PlaylistResult("PLAYLIST_RESULT_BAD_RANGE") }

\* what the collaborators may return while argv is dispatched
DefaultExt ==
    [remote |-> FALSE, result |-> 0, parse |-> TRUE, result2 |-> 0,
     update |-> 1, pw |-> -1]

Externals(argv) ==
    LET name == IF Len(argv) = 0 THEN "" ELSE argv[1]
    IN  CASE name = "add" ->
                {[DefaultExt EXCEPT !.remote = b, !.result = r] :
                    b \in BOOLEAN, r \in AddResults}
                \cup {[DefaultExt EXCEPT !.result = -1]}
          [] name = "addid" ->
                IF Len(argv) = 3
                THEN {[DefaultExt EXCEPT !.result = r, !.parse = b, !.result2 = m] :
                        r \in AddResults, b \in BOOLEAN, m \in MoveResults}
                ELSE {[DefaultExt EXCEPT !.result = r] : r \in AddResults}
          [] name = "save" ->
                {[DefaultExt EXCEPT !.result = r] : r \in SaveResults}
          [] name = "update" ->
                {[DefaultExt EXCEPT !.update = u] : u \in {-1, 0, 1}}
          [] name = "password" ->
                {[DefaultExt EXCEPT !.pw = p] : p \in PasswordPermissions \cup {-1}}
          [] OTHER -> {DefaultExt}

NoCheck ==
    [cmd |-> Entry(NULL, 0, 0, 0, NULL, NULL), permission |-> 0, argv |-> <<>>,
     ret |-> 0, out |-> <<>>, done |-> FALSE]

InitProgram ==
    /\ \E p \in InitPermissions : permission = [c \in Clients |-> p]
    /\ expired = {}
    /\ current_command = NULL
    /\ command_listNum = 0
    /\ pathList = <<>>
    /\ pc = "idle"
    /\ client = CHOOSE c \in Clients : TRUE
    /\ isList = FALSE
    /\ list = <<>>
    /\ listOK = FALSE
    /\ cur = 1
    /\ ret = 0
    /\ out = <<>>
    /\ updates = <<>>
    /\ log = <<>>

Init ==
    /\ InitProgram
    /\ chk = NoCheck

\* the state a dispatch for client c starts from
Globals(c, o, u) ==
    [current_command |-> current_command, command_listNum |-> command_listNum,
     pathList |-> pathList, permission |-> permission[c],
     out |-> o, updates |-> u, aborted |-> FALSE]

\* the ACK lines among the lines o
Acks(o) == SelectSeq(o, LAMBDA l : l.type = "ACK")

\* the record kept of the dispatch of list[i] (entry i-1 of the list) that
\* started in g0 and ended with r; result is what the playlist returned
LogEntry(i, argv, g0, r, ext) ==
    [index |-> i - 1, argv |-> argv, permission |-> g0.permission,
     result |-> ext.result,
     handler |-> r.handler, ret |-> r.ret,
     acks |-> Acks(SubSeq(r.g.out, Len(g0.out) + 1, Len(r.g.out))),
     lines |-> SubSeq(r.g.out, Len(g0.out) + 1, Len(r.g.out)),
     out |-> r.g.out,
     after |-> [permission |-> r.g.permission, updates |-> r.g.updates]]

\* ListStops with && for ||
ListStops_And(r, isExpired) == r # 0 /\ isExpired

\* ListStops with ret < 0 for ret != 0
ListStops_Negative(r, isExpired) == r < 0 \/ isExpired

\* ListStops without the call of client_is_expired
ListStops_NoExpiry(r, isExpired) == r # 0

\* the test that leaves the loop of processListOfCommands
ListStops(r, isExpired) == r # 0 \/ isExpired

\* AfterEntry without command_listNum++
AfterEntry_NoIncrement(g, ok) ==
    [g EXCEPT !.out = IF ok THEN Append(@, TextLine("list_OK", "list_OK")) ELSE @]

\* AfterEntry with the list_OK of the last entry left out
AfterEntry_NoListOk(g, ok) ==
    [g EXCEPT !.command_listNum = @ + 1]

\* the rest of a turn of the loop after an entry that does not stop it
AfterEntry(g, ok) ==
    [g EXCEPT !.out = IF ok THEN Append(@, TextLine("list_OK", "list_OK")) ELSE @,
              !.command_listNum = @ + 1]

\* the statics and the client's mask after a dispatch
Store(c, g) ==
    /\ current_command' = g.current_command
    /\ command_listNum' = g.command_listNum
    /\ pathList' = g.pathList
    /\ permission' = [permission EXCEPT ![c] = g.permission]

\* processCommand: a top-level command of client c
ProcessCommand(c, commandString) ==
    /\ pc = "idle"
    /\ c \notin expired
    /\ \E ext \in Externals(commandString) :
        \E r \in {processCommandInternal(Globals(c, <<>>, <<>>), commandString,
                                         <<commandString>>, 0, ext)} :
        LET g0 == Globals(c, <<>>, <<>>)
        IN  /\ Store(c, r.g)
            /\ pc' = IF r.g.aborted THEN "aborted" ELSE "done"
            /\ client' = c
            /\ isList' = FALSE
            /\ list' = <<commandString>>
            /\ listOK' = FALSE
            /\ cur' = 1
            /\ ret' = r.ret
            /\ out' = r.g.out
            /\ updates' = r.g.updates
            /\ log' = <<LogEntry(1, commandString, g0, r, ext)>>
    /\ UNCHANGED <<expired, chk>>

\* StartList with ret initialised to -1, as in processCommandInternal
StartList_RetInit(c, l, ok) ==
    /\ pc = "idle"
    /\ c \notin expired
    /\ pc' = "list"
    /\ client' = c
    /\ isList' = TRUE
    /\ list' = l
    /\ listOK' = ok
    /\ cur' = 1
    /\ ret' = -1
    /\ command_listNum' = 0
    /\ out' = <<>>
    /\ updates' = <<>>
    /\ log' = <<>>
    /\ UNCHANGED <<permission, expired, current_command, pathList, chk>>

\* processListOfCommands up to the loop: a command list of client c starts
StartList(c, l, ok) ==
    /\ pc = "idle"
    /\ c \notin expired
    /\ pc' = "list"
    /\ client' = c
    /\ isList' = TRUE
    /\ list' = l
    /\ listOK' = ok
    /\ cur' = 1
    /\ ret' = 0
    /\ command_listNum' = 0
    /\ out' = <<>>
    /\ updates' = <<>>
    /\ log' = <<>>
    /\ UNCHANGED <<permission, expired, current_command, pathList, chk>>

\* one turn of the loop of processListOfCommands; isExpired is what
\* client_is_expired(client) gives after the entry
ListStep(isExpired) ==
    /\ pc = "list"
    /\ cur <= Len(list)
    /\ \E ext \in Externals(list[cur]) :
        \E r \in {processCommandInternal(Globals(client, out, updates),
                                         list[cur], list, cur, ext)} :
        LET g0 == Globals(client, out, updates)
            stop == ListStops(r.ret, isExpired)
            g1 == AfterEntry(r.g, listOK)
        IN  /\ current_command' = r.g.current_command
            /\ pathList' = r.g.pathList
            /\ permission' = [permission EXCEPT ![client] = r.g.permission]
            /\ updates' = r.g.updates
            /\ log' = Append(log, LogEntry(cur, list[cur], g0, r, ext))
            /\ ret' = r.ret
            /\ expired' = IF isExpired THEN expired \cup {client} ELSE expired
            /\ IF r.g.aborted
               THEN /\ pc' = "aborted"
                    /\ out' = r.g.out
                    /\ UNCHANGED <<command_listNum, cur>>
               ELSE IF stop
               THEN /\ pc' = "out"
                    /\ out' = r.g.out
                    /\ UNCHANGED <<command_listNum, cur>>
               ELSE /\ pc' = "list"
                    /\ out' = g1.out
                    /\ command_listNum' = g1.command_listNum
                    /\ cur' = cur + 1
    /\ UNCHANGED <<client, isList, list, listOK, chk>>

\* ListExit without command_listNum = 0
ListExit_NoReset ==
    /\ \/ pc = "out"
       \/ pc = "list" /\ cur > Len(list)
    /\ pc' = "done"
    /\ UNCHANGED <<permission, expired, current_command, command_listNum,
                   pathList, client, isList, list, listOK, cur, ret, out,
                   updates, log, chk>>

\* the label out of processListOfCommands, reached by goto or at the end of
\* the loop
ListExit ==
    /\ \/ pc = "out"
       \/ pc = "list" /\ cur > Len(list)
    /\ pc' = "done"
    /\ command_listNum' = 0
    /\ UNCHANGED <<permission, expired, current_command, pathList, client,
                   isList, list, listOK, cur, ret, out, updates, log, chk>>

\* the caller has taken the result: the daemon waits for the next input
Return ==
    /\ pc = "done"
    /\ pc' = "idle"
    /\ isList' = FALSE
    /\ list' = <<>>
    /\ listOK' = FALSE
    /\ cur' = 1
    /\ ret' = 0
    /\ out' = <<>>
    /\ updates' = <<>>
    /\ log' = <<>>
    /\ UNCHANGED <<permission, expired, current_command, command_listNum,
                   pathList, client, chk>>

\* the daemon reads the next input only when no command runs
Next ==
    \/ pc = "idle" /\ \E c \in Clients, l \in Lines : ProcessCommand(c, l)
    \/ pc = "idle" /\ \E c \in Clients, l \in Lists, ok \in BOOLEAN : StartList(c, l, ok)
    \/ \E e \in BOOLEAN : ListStep(e)
    \/ ListExit
    \/ Return

Spec == Init /\ [][Next]_vars

(***************************************************************************)
(* The daemon with two clients.  current_command, command_listNum and the  *)
(* pathList of listHandleUpdate are shared by all clients; the daemon      *)
(* serves one command or command list at a time.                           *)
(***************************************************************************)
Clients2 == {"c1", "c2"}

Lines2 == {
    <<"ping">>,
    <<"update">>,
    <<"update", "a">>,
    <<"update", "b">>,
    <<"update", "a", "b">>,
    <<"bogus">>,
    <<"close">> }

Lists2 == UNION {[1 .. n -> Lines2] : n \in 0 .. MaxList}

InitClients ==
    /\ \E p \in InitPermissions : permission = [c \in Clients2 |-> p]
    /\ expired = {}
    /\ current_command = NULL
    /\ command_listNum = 0
    /\ pathList = <<>>
    /\ pc = "idle"
    /\ client = "c1"
    /\ isList = FALSE
    /\ list = <<>>
    /\ listOK = FALSE
    /\ cur = 1
    /\ ret = 0
    /\ out = <<>>
    /\ updates = <<>>
    /\ log = <<>>
    /\ chk = NoCheck

NextClients ==
    \/ pc = "idle" /\ \E c \in Clients2, l \in Lines2 : ProcessCommand(c, l)
    \/ pc = "idle" /\ \E c \in Clients2, l \in Lists2, ok \in BOOLEAN : StartList(c, l, ok)
    \/ \E e \in BOOLEAN : ListStep(e)
    \/ ListExit
    \/ Return

SpecClients == InitClients /\ [][NextClients]_vars

(***************************************************************************)
(* The validation on its own: checkArgcAndPermission applied to every      *)
(* registered command, every permission mask and every argument count up   *)
(* to MaxArgc, with the marker set to the command as the dispatcher sets   *)
(* it.                                                                     *)
(***************************************************************************)
ArgVector(name, argc) == [i \in 1 .. argc |-> IF i = 1 THEN name ELSE "x"]

\* the registered entries and, for each permission mask and each pair of
\* bounds up to MaxArgs, an entry as addCommand would make it
Descriptors ==
    {commandList[i] : i \in 1 .. Len(commandList)}
    \cup {Entry("test", req, min, max, "handleTest", NULL) :
            req \in Masks, min \in -1 .. MaxArgs, max \in -1 .. MaxArgs}

\* the inputs of one validation: an entry, a mask and an argument vector
InitValidate ==
    /\ InitProgram
    /\ \E cmd \in Descriptors, mask \in Masks, argc \in 1 .. MaxArgc :
          chk = [cmd |-> cmd, permission |-> mask,
                 argv |-> ArgVector(cmd.cmd, argc),
                 ret |-> 0, out |-> <<>>, done |-> FALSE]

Validate ==
    LET g0 == [Globals(client, <<>>, <<>>) EXCEPT
                  !.current_command = chk.cmd.cmd,
                  !.permission = chk.permission]
        r == checkArgcAndPermission(g0, chk.cmd, TRUE, chk.permission, chk.argv)
    IN  /\ ~chk.done
        /\ chk.cmd.cmd # NULL
        /\ chk' = [chk EXCEPT !.ret = r.ret, !.out = r.g.out, !.done = TRUE]
        /\ UNCHANGED <<permission, expired, current_command, command_listNum,
                       pathList, pc, client, isList, list, listOK, cur, ret,
                       out, updates, log>>

NextValidate == Validate

SpecValidate == InitValidate /\ [][NextValidate]_vars

(***************************************************************************)
(* The error formatters on their own: command_error (for a client) and     *)
(* commandError (for a file descriptor) called once, for every value of    *)
(* the marker and of the list index.  command_error is called while a      *)
(* command is dispatched, that is with the marker set (its assertion).     *)
(***************************************************************************)
STDERR_FILENO == 2

\* the descriptors commandError is called with
Fds == 1 .. 3

\* the values of current_command
Markers == {NULL, ""} \cup CommandNames

\* the line written to stderr when no command is attributed
StderrLine(error, listNum, fmt, arg) ==
    [type |-> "ACK", error |-> error, listNum |-> listNum, fmt |-> fmt,
     arg |-> arg]

\* g.out is what is written to fd, g.err what is written to stderr
command_error_va(g, fd, error, fmt, arg) ==
    IF g.current_command # NULL /\ fd # STDERR_FILENO
    THEN [g EXCEPT !.out = Append(@, AckLine(error, g.command_listNum,
                                             g.current_command, fmt, arg)),
                   !.current_command = NULL]
    ELSE [g EXCEPT !.err = Append(@, StderrLine(error, g.command_listNum,
                                                fmt, arg))]

commandError(g, fd, error, fmt, arg) == command_error_va(g, fd, error, fmt, arg)

\* the inputs of one call: the formatter, the descriptor, the marker and
\* the list index at the call
InitError ==
    /\ permission = [c \in Clients |-> AllPermissions]
    /\ expired = {}
    /\ pathList = <<>>
    /\ pc = "idle"
    /\ client = CHOOSE c \in Clients : TRUE
    /\ isList = FALSE
    /\ list = <<>>
    /\ listOK = FALSE
    /\ cur = 1
    /\ ret = 0
    /\ out = <<>>
    /\ updates = <<>>
    /\ log = <<>>
    /\ command_listNum \in 0 .. MaxList
    /\ current_command \in Markers
    /\ \E api \in {"command_error", "commandError"}, fd \in Fds :
        /\ api = "command_error" => (current_command # NULL /\ fd = 1)
        /\ chk = [api |-> api, fd |-> fd, marker |-> current_command,
                  out |-> <<>>, err |-> <<>>, done |-> FALSE]

ErrorGlobals ==
    [current_command |-> current_command, command_listNum |-> command_listNum,
     out |-> <<>>, err |-> <<>>, aborted |-> FALSE]

ErrorUnchanged ==
    UNCHANGED <<permission, expired, command_listNum, pathList, pc, client,
                isList, list, listOK, cur, ret, out, updates, log>>

\* a handler reports a failure to its client
CallCommandError ==
    /\ ~chk.done /\ chk.api = "command_error"
    /\ \E r \in {command_error(ErrorGlobals, "ACK_ERROR_ARG", "need an integer", "")} :
        /\ current_command' = r.current_command
        /\ chk' = [chk EXCEPT !.out = r.out, !.err = r.err, !.done = TRUE]
    /\ ErrorUnchanged

\* a collaborator reports a failure to the file descriptor chk.fd
CallCommandErrorFd ==
    /\ ~chk.done /\ chk.api = "commandError"
    /\ \E r \in {commandError(ErrorGlobals, chk.fd, "ACK_ERROR_ARG",
                              "need an integer", "")} :
        /\ current_command' = r.current_command
        /\ chk' = [chk EXCEPT !.out = r.out, !.err = r.err, !.done = TRUE]
    /\ ErrorUnchanged

NextError == CallCommandError \/ CallCommandErrorFd

SpecError == InitError /\ [][NextError]_vars

(***************************************************************************)
(* The two listings on their own: for every permission mask, the handlers  *)
(* of commands and notcommands are called once each, and                   *)
(* checkArgcAndPermission is called once for a registered command with the *)
(* same mask.                                                              *)
(***************************************************************************)
InitListings ==
    /\ InitProgram
    /\ \E i \in 1 .. Len(commandList), mask \in Masks, argc \in 1 .. MaxArgc :
          chk = [cmd |-> commandList[i], permission |-> mask,
                 argv |-> ArgVector(commandList[i].cmd, argc),
                 commands |-> <<>>, notcommands |-> <<>>,
                 ret |-> 0, out |-> <<>>,
                 listed |-> FALSE, notlisted |-> FALSE, done |-> FALSE]

\* the state a handler called for a client with the mask chk.permission
\* starts from; name is the command being dispatched
ListingsGlobals(name) ==
    [Globals(client, <<>>, <<>>) EXCEPT !.current_command = name,
                                        !.permission = chk.permission]

ListingsUnchanged ==
    UNCHANGED <<permission, expired, current_command, command_listNum,
                pathList, pc, client, isList, list, listOK, cur, ret,
                out, updates, log>>

CallCommands ==
    /\ ~chk.listed
    /\ \E r \in {handleCommands(ListingsGlobals("commands"), <<"commands">>,
                                DefaultExt)} :
          chk' = [chk EXCEPT !.commands = r.g.out, !.listed = TRUE]
    /\ ListingsUnchanged

CallNotcommands ==
    /\ ~chk.notlisted
    /\ \E r \in {handleNotcommands(ListingsGlobals("notcommands"),
                                   <<"notcommands">>, DefaultExt)} :
          chk' = [chk EXCEPT !.notcommands = r.g.out, !.notlisted = TRUE]
    /\ ListingsUnchanged

CallCheck ==
    /\ ~chk.done
    /\ \E r \in {checkArgcAndPermission(ListingsGlobals(chk.cmd.cmd), chk.cmd,
                                        TRUE, chk.permission, chk.argv)} :
          chk' = [chk EXCEPT !.ret = r.ret, !.out = r.g.out, !.done = TRUE]
    /\ ListingsUnchanged

NextListings == CallCommands \/ CallNotcommands \/ CallCheck

SpecListings == InitListings /\ [][NextListings]_vars

(***************************************************************************)
(* The registry on its own: after initCommands, one lookup of a key, for   *)
(* every registered name and some other strings.                           *)
(***************************************************************************)
Keys == DOMAIN NameChars

InitRegistry ==
    /\ InitProgram
    /\ \E key \in Keys : chk = [key |-> key, found |-> 0, done |-> FALSE]

Lookup ==
    /\ ~chk.done
    /\ chk' = [chk EXCEPT !.found = findInList(chk.key), !.done = TRUE]
    /\ UNCHANGED <<permission, expired, current_command, command_listNum,
                   pathList, pc, client, isList, list, listOK, cur, ret,
                   out, updates, log>>

NextRegistry == Lookup

SpecRegistry == InitRegistry /\ [][NextRegistry]_vars

(***************************************************************************)
(* What the properties below read off a state.                             *)
(***************************************************************************)
\* the permission bits set in a mask
Bits(n) == {i \in 0 .. 3 : (n \div (2 ^ i)) % 2 = 1}

\* mask holds every bit of req
HoldsAll(mask, req) == Bits(req) \subseteq Bits(mask)

\* the descriptor registered under a registered name
Descriptor(name) ==
    CHOOSE e \in {commandList[i] : i \in 1 .. Len(commandList)} : e.cmd = name

\* the ordered arity rules for min = minArgs+1, max = maxArgs+1
ExpectedArity(min, max, argc) ==
    IF min = max /\ argc # max THEN "WrongArgumentCount"
    ELSE IF argc < min THEN "TooFewArguments"
    ELSE IF max # 0 /\ argc > max THEN "TooManyArguments"
    ELSE "Ok"

\* what a validation that returned r and wrote the lines o came to
Outcome(r, o) ==
    IF r = 0 /\ o = <<>> THEN "Ok"
    ELSE IF r = -1 /\ Len(o) = 1 /\ o[1].type = "ACK"
    THEN CASE o[1].error = "ACK_ERROR_PERMISSION" -> "PermissionDenied"
           [] o[1].error = "ACK_ERROR_ARG"
                /\ o[1].fmt = "wrong number of arguments for \"%s\"" -> "WrongArgumentCount"
           [] o[1].error = "ACK_ERROR_ARG"
                /\ o[1].fmt = "too few arguments for \"%s\"" -> "TooFewArguments"
           [] o[1].error = "ACK_ERROR_ARG"
                /\ o[1].fmt = "too many arguments for \"%s\"" -> "TooManyArguments"
           [] OTHER -> "Other"
    ELSE "Other"

IsPrefix(a, b) == Len(a) <= Len(b) /\ SubSeq(b, 1, Len(a)) = a

ListOkCount(o) == Len(SelectSeq(o, LAMBDA l : l.type = "list_OK"))

Sentinels == {COMMAND_RETURN_KILL, COMMAND_RETURN_CLOSE}

\* every entry of the list was dispatched and returned 0, and the client
\* was not found expired
AllSucceeded ==
    /\ Len(log) = Len(list)
    /\ \A i \in 1 .. Len(log) : log[i].ret = 0
    /\ client \notin expired

\* the record of a list is a prefix of the list in which only the last entry
\* may have returned non-zero, and the state is as the last entry left it
C1_Prefix ==
    isList =>
        /\ Len(log) <= Len(list)
        /\ \A i \in 1 .. Len(log) :
            /\ log[i].index = i - 1
            /\ log[i].argv = list[i]
            /\ i < Len(log) => log[i].ret = 0
        /\ \A i \in 1 .. Len(log) - 1 :
            /\ log[i + 1].permission = log[i].after.permission
            /\ IsPrefix(log[i].after.updates, log[i + 1].after.updates)
        /\ Len(log) > 0 =>
            /\ permission[client] = log[Len(log)].after.permission
            /\ updates = log[Len(log)].after.updates

\* a step that dispatches an entry of a list dispatches the next entry, only
\* after entries that all returned 0, and leaves the record of the earlier
\* ones alone; a step of a request that dispatches nothing leaves the
\* permission and the started updates alone
C1_Step ==
    /\ (isList' /\ Len(log') > Len(log)) =>
        /\ list' = list
        /\ log' = Append(log, log'[Len(log')])
        /\ log'[Len(log')].argv = list[Len(log) + 1]
        /\ \A i \in 1 .. Len(log) : log[i].ret = 0
    /\ (Len(log') = Len(log) /\ pc' # "idle") =>
        /\ permission' = permission
        /\ updates' = updates

(***************************************************************************)
(* C1: the entries of a command list are dispatched in list order, each at *)
(* most once; after an entry that returned non-zero no later entry is      *)
(* dispatched; what the earlier entries did (the client's permission, the  *)
(* updates started) stays as they left it.                                 *)
(***************************************************************************)
C1_AbortOnFirstFailure == [] C1_Prefix /\ [][C1_Step]_vars

\* a list [password, failing entry, third entry] has returned: the password
\* has changed the permission, the second entry has its ACK, the third was
\* not dispatched
C1_Witness ==
    /\ pc = "done" /\ isList /\ Len(list) = 3 /\ Len(log) = 2
    /\ log[1].handler = "handlePassword" /\ log[1].ret = 0
    /\ log[1].permission # permission[client]
    /\ log[2].ret = -1 /\ Len(log[2].acks) = 1

(***************************************************************************)
(* C2: an ACK written while entry k (from 0) of a command list is          *)
(* processed has list index k, the number of entries of the list that      *)
(* returned 0 before it.                                                   *)
(***************************************************************************)
C2_AckListIndex ==
    isList =>
        \A i \in 1 .. Len(log) : \A j \in 1 .. Len(log[i].acks) :
            /\ log[i].acks[j].listNum = log[i].index
            /\ log[i].acks[j].listNum =
                  Cardinality({k \in 1 .. i - 1 : log[k].ret = 0})

\* the third entry of a list whose second line is empty has an ACK with
\* index 2
C2_Witness ==
    /\ isList /\ Len(log) = 3 /\ list[2] = <<>>
    /\ log[3].acks # <<>> /\ log[3].acks[1].listNum = 2

(***************************************************************************)
(* C3: an ACK written while an entry is processed has, as its command, the *)
(* name of that entry (the empty string when the name is not registered).  *)
(***************************************************************************)
C3_AckNamesEntry ==
    \A i \in 1 .. Len(log) : \A j \in 1 .. Len(log[i].acks) :
        /\ Len(log[i].argv) > 0
        /\ log[i].acks[j].command =
              IF log[i].argv[1] \in CommandNames THEN log[i].argv[1] ELSE ""

(***************************************************************************)
(* C4, as the claim states it: a command list of n >= 1 entries that all   *)
(* succeed, run with listOK, has written n-1 list_OK lines when it         *)
(* returns.                                                                *)
(***************************************************************************)
C4_Original ==
    (pc = "done" /\ isList /\ listOK /\ AllSucceeded /\ Len(list) >= 1)
        => ListOkCount(out) = Len(list) - 1

(***************************************************************************)
(* C4, amended: a command list of n entries that are all dispatched and    *)
(* return 0, with the client not found expired, run with listOK, has       *)
(* written n list_OK lines when it returns, the last line written being    *)
(* the list_OK of the last entry.                                          *)
(***************************************************************************)
C4_ListOkPerEntry ==
    (pc = "done" /\ isList /\ listOK /\ AllSucceeded)
        => /\ ListOkCount(out) = Len(list)
           /\ Len(list) > 0 => out[Len(out)].type = "list_OK"

\* a list of three entries, one of them with a handler, has returned with
\* three list_OK lines
C4_Witness ==
    /\ pc = "done" /\ isList /\ listOK /\ AllSucceeded
    /\ Len(list) = 3 /\ ListOkCount(out) = 3
    /\ \E i \in 1 .. 3 : log[i].handler # NULL

(***************************************************************************)
(* C5: a dispatch that returned a value that is neither 0 nor the close or *)
(* kill sentinel has written exactly one ACK.                              *)
(***************************************************************************)
C5_OneAckPerFailure ==
    \A i \in 1 .. Len(log) :
        (log[i].ret # 0 /\ log[i].ret \notin Sentinels) => Len(log[i].acks) = 1

(***************************************************************************)
(* C6: a dispatch during which an ACK was written returned non-zero.       *)
(***************************************************************************)
C6_AckImpliesFailure ==
    \A i \in 1 .. Len(log) : log[i].acks # <<>> => log[i].ret # 0

(***************************************************************************)
(* C7: a handler or list handler was called for a line only if the name of *)
(* the line is registered, the client's mask at the dispatch held every    *)
(* required bit and the argument count was within the descriptor's rules;  *)
(* the handler called is the one of that descriptor.                       *)
(***************************************************************************)
C7_HandlerOnlyAfterValidation ==
    \A i \in 1 .. Len(log) :
        log[i].handler # NULL =>
            /\ Len(log[i].argv) > 0
            /\ log[i].argv[1] \in CommandNames
            /\ LET d == Descriptor(log[i].argv[1])
               IN  /\ HoldsAll(log[i].permission, d.reqPermission)
                   /\ \/ d.min = -1
                      \/ ExpectedArity(d.min + 1, d.max + 1, Len(log[i].argv)) = "Ok"
                   /\ log[i].handler \in {d.handler, d.listHandler}

\* a list whose first entry ran its handler and whose second entry was
\* refused for lack of permission
C7_Witness ==
    /\ isList /\ Len(log) = 2
    /\ log[1].handler = "handleAdd"
    /\ log[2].handler = NULL
    /\ log[2].acks # <<>> /\ log[2].acks[1].error = "ACK_ERROR_PERMISSION"

(***************************************************************************)
(* C8: when the mask lacks a required bit the validation fails with one    *)
(* ACK of kind permission whose message names the command, whatever the    *)
(* argument count is.                                                      *)
(***************************************************************************)
C8_PermissionBeforeArity ==
    (chk.done /\ ~HoldsAll(chk.permission, chk.cmd.reqPermission)) =>
        /\ chk.ret = -1
        /\ Len(chk.out) = 1
        /\ chk.out[1].type = "ACK"
        /\ chk.out[1].error = "ACK_ERROR_PERMISSION"
        /\ chk.out[1].fmt = "you don't have permission for \"%s\""
        /\ chk.out[1].arg = chk.cmd.cmd

\* stop given two arguments too many by a client without the control bit
C8_Witness ==
    /\ chk.done /\ chk.cmd.cmd = "stop" /\ Len(chk.argv) = 3
    /\ ~HoldsAll(chk.permission, chk.cmd.reqPermission)
    /\ Outcome(chk.ret, chk.out) = "PermissionDenied"

(***************************************************************************)
(* C9: the permission check depends on the required mask and the client's  *)
(* mask alone: it refuses exactly when the client's mask lacks a required  *)
(* bit.                                                                    *)
(***************************************************************************)
C9_PermissionIsMaskTest ==
    chk.done =>
        (Outcome(chk.ret, chk.out) = "PermissionDenied"
            <=> ~HoldsAll(chk.permission, chk.cmd.reqPermission))

\* a descriptor that requires two bits passes the check of a client that
\* holds them and others
C9_Witness ==
    /\ chk.done
    /\ Cardinality(Bits(chk.cmd.reqPermission)) = 2
    /\ HoldsAll(chk.permission, chk.cmd.reqPermission)
    /\ Bits(chk.permission) # Bits(chk.cmd.reqPermission)
    /\ Outcome(chk.ret, chk.out) # "PermissionDenied"

(***************************************************************************)
(* C10: with the permission held and minArgs not -1, the validation of an  *)
(* argument vector of length argc comes to what the ordered rules give for *)
(* min = minArgs+1 and max = maxArgs+1.                                    *)
(***************************************************************************)
C10_ArityRules ==
    (chk.done /\ chk.cmd.min # -1
        /\ HoldsAll(chk.permission, chk.cmd.reqPermission)) =>
        Outcome(chk.ret, chk.out) =
            ExpectedArity(chk.cmd.min + 1, chk.cmd.max + 1, Len(chk.argv))

\* find (two arguments or more, no maximum) passes with three arguments
C10_Witness ==
    /\ chk.done /\ chk.cmd.cmd = "find" /\ chk.cmd.max = -1
    /\ Len(chk.argv) = 4
    /\ Outcome(chk.ret, chk.out) = "Ok"

\* the validation made on its own had the permission it needs
Permitted == chk.done /\ HoldsAll(chk.permission, chk.cmd.reqPermission)

(***************************************************************************)
(* C11, as the claim states it, for the registered descriptors: with       *)
(* minArgs not -1, a length below minArgs+1 yields TooFewArguments and a   *)
(* length above maxArgs+1 (maxArgs not -1) yields TooManyArguments.        *)
(***************************************************************************)
C11_Original ==
    (Permitted /\ chk.cmd.cmd \in CommandNames /\ chk.cmd.min # -1) =>
        /\ Len(chk.argv) < chk.cmd.min + 1
              => Outcome(chk.ret, chk.out) = "TooFewArguments"
        /\ (chk.cmd.max # -1 /\ Len(chk.argv) > chk.cmd.max + 1)
              => Outcome(chk.ret, chk.out) = "TooManyArguments"

(***************************************************************************)
(* C11, amended: for a descriptor with minArgs not -1 and minArgs not      *)
(* equal to maxArgs, a length below minArgs+1 yields TooFewArguments and a *)
(* length above maxArgs+1 (maxArgs not -1) that is not below minArgs+1     *)
(* yields TooManyArguments; for a descriptor with minArgs equal to maxArgs *)
(* every other length than maxArgs+1 yields WrongArgumentCount.            *)
(***************************************************************************)
C11_ArityErrors ==
    (Permitted /\ chk.cmd.min # -1) =>
        /\ (chk.cmd.min # chk.cmd.max /\ Len(chk.argv) < chk.cmd.min + 1)
              => Outcome(chk.ret, chk.out) = "TooFewArguments"
        /\ (chk.cmd.min # chk.cmd.max /\ chk.cmd.max # -1
                /\ Len(chk.argv) > chk.cmd.max + 1
                /\ Len(chk.argv) >= chk.cmd.min + 1)
              => Outcome(chk.ret, chk.out) = "TooManyArguments"
        /\ (chk.cmd.min = chk.cmd.max /\ Len(chk.argv) # chk.cmd.max + 1)
              => Outcome(chk.ret, chk.out) = "WrongArgumentCount"

\* addid (one or two arguments) given three arguments
C11_Witness ==
    /\ Permitted /\ chk.cmd.cmd = "addid"
    /\ chk.cmd.min # chk.cmd.max
    /\ Len(chk.argv) > chk.cmd.max + 1
    /\ Outcome(chk.ret, chk.out) = "TooManyArguments"

(***************************************************************************)
(* C12: a descriptor with minArgs = -1 has no arity check: with the        *)
(* permission held every argument count is accepted, whatever maxArgs is.  *)
(***************************************************************************)
C12_NoArityCheck ==
    (Permitted /\ chk.cmd.min = -1) => Outcome(chk.ret, chk.out) = "Ok"

\* a descriptor with minArgs -1 and maxArgs 0 accepts three arguments
C12_Witness ==
    /\ Permitted /\ chk.cmd.min = -1 /\ chk.cmd.max = 0
    /\ Len(chk.argv) = 4
    /\ Outcome(chk.ret, chk.out) = "Ok"

(***************************************************************************)
(* C13: a descriptor with maxArgs = -1 and minArgs >= 0 has no upper       *)
(* bound: a vector of length minArgs+1 or more passes the arity check, and *)
(* no vector is rejected as TooManyArguments.                              *)
(***************************************************************************)
C13_NoUpperBound ==
    (Permitted /\ chk.cmd.max = -1 /\ chk.cmd.min >= 0) =>
        /\ Outcome(chk.ret, chk.out) # "TooManyArguments"
        /\ Len(chk.argv) >= chk.cmd.min + 1 => Outcome(chk.ret, chk.out) = "Ok"

\* a descriptor with minArgs 0 and maxArgs -1 accepts three arguments
C13_Witness ==
    /\ Permitted /\ chk.cmd.max = -1 /\ chk.cmd.min = 0
    /\ Len(chk.argv) = 4
    /\ Outcome(chk.ret, chk.out) = "Ok"

\* the last dispatch recorded, when there is one
LastEntry == log[Len(log)]

\* a close or kill handler has returned its sentinel in the last dispatch
SentinelReturned == Len(log) > 0 /\ LastEntry.ret \in Sentinels

\* only close and kill return a sentinel, and they return their own; the
\* entry that returned it has written nothing, no line follows it, the call
\* is past its loop and its result is the sentinel
C14_Sentinel ==
    /\ \A i \in 1 .. Len(log) :
        /\ log[i].handler = "handleClose" => log[i].ret = COMMAND_RETURN_CLOSE
        /\ log[i].handler = "handleKill" => log[i].ret = COMMAND_RETURN_KILL
        /\ log[i].ret \in Sentinels =>
            /\ log[i].handler \in {"handleClose", "handleKill"}
            /\ i = Len(log)
            /\ log[i].lines = <<>>
    /\ SentinelReturned =>
        /\ pc \in {"out", "done"}
        /\ ret = LastEntry.ret
        /\ out = LastEntry.out

\* after a sentinel the call dispatches and writes nothing more and keeps
\* the sentinel as its result
C14_Step ==
    (SentinelReturned /\ pc' # "idle") =>
        /\ log' = log
        /\ out' = out
        /\ ret' = ret

(***************************************************************************)
(* C14: when a close or kill handler returns its sentinel, processCommand  *)
(* returns that value unchanged, and processListOfCommands stops at that   *)
(* entry: it dispatches no later entry, writes neither list_OK nor ACK for *)
(* it, and returns the sentinel.                                           *)
(***************************************************************************)
C14_SentinelPropagates == [] C14_Sentinel /\ [][C14_Step]_vars

\* a list [ping, close, ping] run with listOK has returned the close
\* sentinel after one list_OK, the third entry not dispatched
C14_Witness ==
    /\ pc = "done" /\ isList /\ listOK /\ Len(list) = 3 /\ Len(log) = 2
    /\ log[1].handler = "handlePing"
    /\ log[2].handler = "handleClose"
    /\ ret = COMMAND_RETURN_CLOSE
    /\ ListOkCount(out) = 1

\* the client of the running list has been found expired: the call is past
\* its loop and nothing was written after the last entry's own output
C15_Expired ==
    (isList /\ client \in expired) =>
        /\ Len(log) > 0
        /\ pc \in {"out", "done"}
        /\ out = LastEntry.out

C15_Step ==
    (isList /\ client \in expired /\ pc' # "idle") =>
        /\ log' = log
        /\ out' = out

(***************************************************************************)
(* C15: if the client is found expired after an entry of a list has been   *)
(* processed, processListOfCommands stops at once: it writes no list_OK    *)
(* for that entry and dispatches no later entry.                           *)
(***************************************************************************)
C15_ExpiredStops == [] C15_Expired /\ [][C15_Step]_vars

\* the client expired during the first of three entries, which succeeded,
\* of a list run with listOK
C15_Witness ==
    /\ pc = "done" /\ isList /\ listOK /\ client \in expired
    /\ Len(list) = 3 /\ Len(log) = 1
    /\ log[1].handler = "handlePing" /\ log[1].ret = 0
    /\ ListOkCount(out) = 0

(***************************************************************************)
(* C16: the dispatch of a line with no token returns 0 and writes nothing, *)
(* calls no handler, changes neither the permission nor the updates and    *)
(* leaves the marker alone; inside a list it counts as a successful entry  *)
(* (list_OK is written for it and the list index moves on).                *)
(***************************************************************************)
C16_EmptyLine ==
    \A i \in 1 .. Len(log) :
        log[i].argv = <<>> =>
            /\ log[i].ret = 0
            /\ log[i].handler = NULL
            /\ log[i].lines = <<>>
            /\ log[i].after.permission = log[i].permission
            /\ (i = Len(log) /\ pc # "idle") => current_command = NULL
            /\ (isList /\ client \notin expired) =>
                /\ listOK => ListOkCount(out) >= i
                /\ (i = Len(log) /\ pc = "list") => command_listNum = i

\* a list [empty line, unknown command] run with listOK: one list_OK, then
\* the ACK of the second entry with index 1
C16_Witness ==
    /\ isList /\ listOK /\ Len(log) = 2
    /\ log[1].argv = <<>>
    /\ ListOkCount(out) = 1
    /\ log[2].acks # <<>> /\ log[2].acks[1].listNum = 1

(***************************************************************************)
(* C17: the dispatch of a line whose first token is no registered name     *)
(* fails with exactly one ACK, of kind unknown command, with the empty     *)
(* string as command and the attempted name in the message; no handler is  *)
(* called.                                                                 *)
(***************************************************************************)
C17_UnknownCommand ==
    \A i \in 1 .. Len(log) :
        (log[i].argv # <<>> /\ log[i].argv[1] \notin CommandNames) =>
            /\ log[i].ret = -1
            /\ log[i].handler = NULL
            /\ Len(log[i].lines) = 1
            /\ log[i].lines[1].type = "ACK"
            /\ log[i].lines[1].error = "ACK_ERROR_UNKNOWN"
            /\ log[i].lines[1].command = ""
            /\ log[i].lines[1].fmt = "unknown command \"%s\""
            /\ log[i].lines[1].arg = log[i].argv[1]

\* an unknown name as second entry of a list
C17_Witness ==
    /\ isList /\ Len(log) = 2
    /\ log[2].argv = <<"bogus">>
    /\ log[2].acks # <<>> /\ log[2].acks[1].listNum = 1

\* a dispatch that changed the permission called handlePassword
C19_OnlyPassword ==
    \A i \in 1 .. Len(log) :
        log[i].after.permission # log[i].permission =>
            /\ log[i].handler = "handlePassword"
            /\ log[i].argv[1] = "password"

\* a step that changes a permission is a dispatch that calls handlePassword
C19_Step ==
    permission' # permission =>
        /\ Len(log') > 0
        /\ log' # log
        /\ log'[Len(log')].handler = "handlePassword"
        /\ \A c \in Clients : c # client' => permission'[c] = permission[c]

(***************************************************************************)
(* C19: the permission mask of a connection is changed only by the         *)
(* dispatch of a password command; no other command and no dispatch that   *)
(* the lookup, the permission check or the arity check rejected changes    *)
(* it, after any sequence of commands and lists.                           *)
(***************************************************************************)
C19_PermissionFrame == [] C19_OnlyPassword /\ [][C19_Step]_vars

\* a list in which password changed the mask: after an add and a rejected
\* entry the mask is still what password left
C19_Witness ==
    /\ isList /\ Len(log) = 3
    /\ log[1].handler = "handlePassword"
    /\ log[1].after.permission # log[1].permission
    /\ log[2].handler = "handleAdd"
    /\ log[3].handler = NULL /\ log[3].ret = -1
    /\ permission[client] = log[1].after.permission

(***************************************************************************)
(* C20: a connection that issues idle with no arguments is suspended (the  *)
(* dispatch is accepted: it returns 0 and writes no ACK) until an event    *)
(* wakes it with `changed: player` and OK.                                 *)
(***************************************************************************)
C20_IdleAccepted ==
    \A i \in 1 .. Len(log) :
        log[i].argv = <<"idle">> =>
            /\ log[i].ret = 0
            /\ log[i].acks = <<>>

(***************************************************************************)
(* C18: after a failure has been formatted, by command_error or by         *)
(* commandError on any file descriptor, the current-command marker is      *)
(* cleared (NULL).                                                         *)
(***************************************************************************)
C18_MarkerCleared ==
    chk.done => current_command = NULL

\* a comes before b in the order of strcmp
NameLess(a, b) ==
    LET x == NameChars[a]
        y == NameChars[b]
    IN  \E k \in 1 .. Len(y) :
            /\ k <= Len(x) + 1
            /\ \A j \in 1 .. k - 1 : x[j] = y[j]
            /\ k = Len(x) + 1 \/ x[k] < y[k]

\* the names initCommands registers
RegisteredNames == {initCommands[i].cmd : i \in 1 .. Len(initCommands)}

(***************************************************************************)
(* C23: after initCommands the registry holds every registered descriptor  *)
(* once, no two descriptors have the same name, and the names are strictly *)
(* increasing.                                                             *)
(***************************************************************************)
C23_RegistrySorted ==
    chk.done =>
        /\ Len(commandList) = Len(initCommands)
        /\ {commandList[i] : i \in 1 .. Len(commandList)}
              = {initCommands[i] : i \in 1 .. Len(initCommands)}
        /\ \A i \in 1 .. Len(commandList), j \in 1 .. Len(commandList) :
              i # j => commandList[i].cmd # commandList[j].cmd
        /\ \A i \in 1 .. Len(commandList) - 1 :
              NameLess(commandList[i].cmd, commandList[i + 1].cmd)

\* the registry is in use (a lookup was made) and its order is not the
\* order of registration: play was registered first and add is first
C23_Witness ==
    /\ chk.done
    /\ initCommands[1].cmd = "play"
    /\ commandList[1].cmd = "add"
    /\ commandList[Len(commandList)].cmd = "volume"

(***************************************************************************)
(* C24: the lookup of a key gives, for every registered name, the          *)
(* descriptor registered under exactly that name (its permission, min, max *)
(* and handlers) and, for every other string, not found.                   *)
(***************************************************************************)
C24_LookupExact ==
    chk.done =>
        IF chk.key \in RegisteredNames
        THEN /\ chk.found # 0
             /\ \E i \in 1 .. Len(initCommands) :
                   /\ initCommands[i].cmd = chk.key
                   /\ commandList[chk.found] = initCommands[i]
        ELSE chk.found = 0

\* the last name registered is found where the order has put it
C24_Witness ==
    /\ chk.done /\ chk.key = initCommands[Len(initCommands)].cmd
    /\ chk.found # 0 /\ chk.found # Len(initCommands)
    /\ commandList[chk.found].handler = initCommands[Len(initCommands)].handler

\* the error kind of the ACK for a playlist result that is a missing song or
\* a missing playlist
NotFoundKind == "ACK_ERROR_NO_EXIST"

(***************************************************************************)
(* C22: when the playlist reports that the playlist already exists, the    *)
(* dispatch fails with one ACK whose error kind is not the kind used for a *)
(* missing song or playlist.                                               *)
(***************************************************************************)
C22_AlreadyExistsKind ==
    \A i \in 1 .. Len(log) :
        (log[i].handler = "handleSave"
            /\ log[i].result = PlaylistResult("PLAYLIST_RESULT_LIST_EXISTS")) =>
            /\ Len(log[i].acks) = 1
            /\ log[i].acks[1].error # NotFoundKind

\* the playlist has added the song (and there was no position to move it to)
Added(e) == e.result = PlaylistResult("PLAYLIST_RESULT_SUCCESS")

(***************************************************************************)
(* C30: addid writes an Id line exactly when the song was added to the     *)
(* playlist, and none when adding failed.                                  *)
(***************************************************************************)
C30_IdIffAdded ==
    \A i \in 1 .. Len(log) :
        (log[i].handler = "handleAddId" /\ Len(log[i].argv) = 2) =>
            ((\E j \in 1 .. Len(log[i].lines) : log[i].lines[j].type = "Id")
                <=> Added(log[i]))

(***************************************************************************)
(* C25: a command list of zero lines succeeds: processListOfCommands       *)
(* dispatches nothing, writes no list_OK and no ACK, and returns 0.        *)
(***************************************************************************)
C25_EmptyList ==
    (isList /\ list = <<>>) =>
        /\ log = <<>>
        /\ out = <<>>
        /\ ret = 0
        /\ command_listNum = 0

\* an empty list run with listOK has returned
C25_Witness ==
    /\ pc = "done" /\ isList /\ listOK /\ list = <<>>
    /\ ret = 0 /\ out = <<>>

(***************************************************************************)
(* C27: the list index is 0 whenever no command list is executing          *)
(* (processListOfCommands resets it on every exit), so every ACK written   *)
(* for a top-level command has index 0.                                    *)
(***************************************************************************)
C27_IndexZeroOutsideList ==
    /\ pc \in {"idle", "done"} => command_listNum = 0
    /\ ~isList =>
          \A i \in 1 .. Len(log) : \A j \in 1 .. Len(log[i].acks) :
              log[i].acks[j].listNum = 0

\* a list has returned after its third entry failed with index 2, and the
\* index is 0 again
C27_Witness ==
    /\ pc = "done" /\ isList /\ Len(log) = 3
    /\ log[3].acks # <<>> /\ log[3].acks[1].listNum = 2
    /\ command_listNum = 0

\* the path an update entry names ("" for an update without argument)
UpdatePath(argv) == IF Len(argv) = 2 THEN argv[2] ELSE ""

\* argv is an update command that passes validation under mask
ValidUpdate(argv, mask) ==
    /\ Len(argv) \in {1, 2}
    /\ argv[1] = "update"
    /\ HoldsAll(mask, PERMISSION_ADMIN)

\* the path lists handed to updateInit by the i-th dispatch of the call
Started(i) ==
    LET before == IF i = 1 THEN <<>> ELSE log[i - 1].after.updates
    IN  SubSeq(log[i].after.updates, Len(before) + 1, Len(log[i].after.updates))

\* the first entry of the run of valid update entries that entry i is in
RunStart(i) ==
    CHOOSE j \in 1 .. i :
        /\ \A k \in j .. i : ValidUpdate(list[k], log[k].permission)
        /\ j = 1 \/ ~ValidUpdate(list[j - 1], log[j - 1].permission)

\* the paths of the entries of that run up to entry i, in order
RunPaths(i) ==
    [k \in 1 .. (i - RunStart(i) + 1) |-> UpdatePath(list[RunStart(i) + k - 1])]

\* entry i is the last entry of its run
LastOfRun(i) ==
    i = Len(list) \/ ~ValidUpdate(list[i + 1], log[i].permission)

(***************************************************************************)
(* C29: the path list of listHandleUpdate is empty whenever no command     *)
(* list is executing, and every path handed to an update started by a      *)
(* command list is a path of an update entry of that list.                 *)
(***************************************************************************)
C29_AccumulatorEmpty ==
    /\ pc \in {"idle", "done"} => pathList = <<>>
    /\ isList =>
          \A i \in 1 .. Len(log) : \A j \in 1 .. Len(Started(i)) :
              \A k \in 1 .. Len(Started(i)[j]) :
                  Started(i)[j][k] \in {UpdatePath(list[m]) : m \in 1 .. i}

(***************************************************************************)
(* C28: in a command list a maximal run of consecutive valid update        *)
(* entries starts the update once, at the last entry of the run, with the  *)
(* paths of all entries of the run in order; the earlier entries of the    *)
(* run return 0 and start nothing.  A top-level update starts its own      *)
(* update.                                                                 *)
(***************************************************************************)
C28_RunStartsOnce ==
    \A i \in 1 .. Len(log) :
        ValidUpdate(list[i], log[i].permission) =>
            IF ~isList
            THEN Started(i) = <<IF Len(list[i]) = 2 THEN <<list[i][2]>> ELSE <<>>>>
            ELSE IF LastOfRun(i)
            THEN Started(i) = <<RunPaths(i)>>
            ELSE Started(i) = <<>> /\ log[i].ret = 0

\* the state of a daemon that has served nobody before, about to dispatch
\* entry e of a client's own command or command list
OwnState(e) ==
    [current_command |-> NULL, command_listNum |-> e.index, pathList |-> <<>>,
     permission |-> e.permission, out |-> <<>>, updates |-> <<>>,
     aborted |-> FALSE]

\* between two calls the statics that an ACK line reads carry nothing over
C26_Idle == pc = "idle" => current_command = NULL /\ command_listNum = 0

\* every dispatch returns and writes what the same entry of the same command
\* list returns and writes in a daemon that has served nobody before
C26_Step ==
    (log' # log /\ log' # <<>>) =>
        LET e == log'[Len(log')]
        IN  \E ext \in Externals(e.argv) :
                /\ ext.result = e.result
                /\ \E r \in {processCommandInternal(OwnState(e), e.argv, list',
                                IF isList' THEN e.index + 1 ELSE 0, ext)} :
                        /\ r.ret = e.ret
                        /\ r.g.out = e.lines

C21_IdleCancelled ==
    \A i \in 1 .. Len(log) :
        log[i].argv = <<"idle">> =>
            /\ log[i].lines = <<>>
            /\ (pc = "done" /\ isList /\ i < Len(list) /\ client \notin expired)
                   => Len(log) > i

\* how often the lines o list the command name
TimesListed(o, name) ==
    Cardinality({i \in 1 .. Len(o) : o[i].type = "command" /\ o[i].arg = name})

\* both listings and the validation have been made
AllCalled == chk.listed /\ chk.notlisted /\ chk.done

(***************************************************************************)
(* C31: for any permission mask, every registered command is listed by     *)
(* exactly one of commands and notcommands, once, and it is listed by      *)
(* commands exactly when the permission check of checkArgcAndPermission    *)
(* accepts the command for the same mask.                                  *)
(***************************************************************************)
C31_ListingsPartition ==
    AllCalled =>
        /\ \A name \in CommandNames :
              TimesListed(chk.commands, name) + TimesListed(chk.notcommands, name) = 1
        /\ Len(chk.commands) + Len(chk.notcommands) = Len(commandList)
        /\ TimesListed(chk.commands, chk.cmd.cmd) = 1
              <=> Outcome(chk.ret, chk.out) # "PermissionDenied"

\* a client with read and add permission only: update is listed by
\* notcommands, not by commands, and its validation is refused
C31_Witness ==
    /\ AllCalled
    /\ chk.permission = PERMISSION_READ + PERMISSION_ADD
    /\ chk.cmd.cmd = "update"
    /\ TimesListed(chk.commands, "update") = 0
    /\ TimesListed(chk.notcommands, "update") = 1
    /\ TimesListed(chk.commands, "add") = 1
    /\ Outcome(chk.ret, chk.out) = "PermissionDenied"

(***************************************************************************)
(* C32: the assertion of command_error_v never fails: whenever an ACK is   *)
(* formatted during a dispatch (by the validation, by a handler, or by the *)
(* list handler after it looked at the next entry) the marker is set, no   *)
(* dispatch formats two ACKs, and the marker is NULL whenever no dispatch  *)
(* is in progress.                                                         *)
(***************************************************************************)
C32_MarkerSet ==
    /\ pc # "aborted"
    /\ current_command = NULL
    /\ \A i \in 1 .. Len(log) :
          /\ Len(log[i].acks) <= 1
          /\ \A j \in 1 .. Len(log[i].acks) : log[i].acks[j].command # NULL

\* a list has returned in which the list handler of update, with an entry
\* after it, wrote an ACK, and an unknown command wrote one
C32_Witness ==
    /\ pc = "done" /\ isList /\ Len(list) = 3
    /\ \E i \in 1 .. Len(log) :
          /\ i < Len(list)
          /\ log[i].handler = "listHandleUpdate"
          /\ Len(log[i].acks) = 1
    /\ \E i \in 1 .. Len(log) :
          /\ log[i].argv = <<"bogus">>
          /\ Len(log[i].acks) = 1
    /\ current_command = NULL

====
